---- MODULE Spec2Model ----
(***************************************************************************)
(* pybadges.precalculated_text_measurer.PrecalculatedTextMeasurer          *)
(*                                                                         *)
(* A table (default width, char_to_width, pair_to_kern), the width         *)
(* estimate text_width computed from it, from_json building a table from a *)
(* JSON stream, and default() resolving and caching the bundled table.     *)
(*                                                                         *)
(* A text and a mapping key are sequences of one-character strings.        *)
(* Widths are exact numbers (integers here): the pixel amounts of the      *)
(* bundled table are multiples of 1/64, whose sums are exact.              *)
(***************************************************************************)
EXTENDS Integers, Sequences, FiniteSets, TLC

VARIABLES
    xz,             \* the bundled resource default-widths.json.xz
    json,           \* the bundled resource default-widths.json
    _default_cache, \* the class attribute: None or the id of a table object
    objs,           \* the table objects constructed so far, by id
    pc,             \* per thread: where it is in default() or text_width()
    self,           \* per thread: the table object text_width runs on
    text,           \* per thread: text_width's argument
    index,          \* per thread: text_width's loop index
    width,          \* per thread: text_width's accumulator
    outcome,        \* per thread: how its last call ended
    startedAfter,   \* per thread: its default() call began after one had returned
    ops,            \* calls begun so far
    returned,       \* the table objects default() calls have returned
    cacheWrites,    \* assignments to _default_cache so far
    opened,         \* the resources default() has opened so far
    call            \* the last direct call of text_width or from_json

vars == <<xz, json, _default_cache, objs, pc, self, text, index, width,
          outcome, startedAfter, ops, returned, cacheWrites, opened, call>>

----------------------------------------------------------------------------
(* Bounds *)

MaxLen == 3
MaxKernKeys == 2
MaxOps == 4

Threads == {"t1", "t2"}

Chars == {"a", "b", "c"}

----------------------------------------------------------------------------
(* Values *)

None == 0

Min(a, b) == IF a < b THEN a ELSE b

Texts == UNION {[1..n -> Chars] : n \in 0..MaxLen}

\* Keys a kerning table is enumerated with: one and two characters.
KernKeys == UNION {[1..n -> Chars] : n \in 1..2}

GlyphWidth(c) == CASE c = "a" -> 5 [] c = "b" -> 6 [] OTHER -> 8

Code(c) == CASE c = "a" -> 1 [] c = "b" -> 2 [] OTHER -> 3

\* A kerning amount for each key, different for different keys, of both signs.
KernAmount(k) ==
    IF Len(k) = 1 THEN Code(k[1]) ELSE 4 * Code(k[1]) + Code(k[2]) - 8

CharMaps == {[c \in D |-> GlyphWidth(c)] : D \in SUBSET Chars}

KernMaps ==
    {[k \in D |-> KernAmount(k)] :
        D \in {E \in SUBSET KernKeys : Cardinality(E) <= MaxKernKeys}}

DefaultWidths == {10}

\* PrecalculatedTextMeasurer(default_character_width, char_to_width, pair_to_kern)
PrecalculatedTextMeasurer(default_character_width, char_to_width, pair_to_kern) ==
    [_default_character_width |-> default_character_width,
     _char_to_width |-> char_to_width,
     _pair_to_kern |-> pair_to_kern]

Tables ==
    {PrecalculatedTextMeasurer(d, cw, pk) :
        d \in DefaultWidths, cw \in CharMaps, pk \in KernMaps}

----------------------------------------------------------------------------
(* text_width *)

\* dict.get(key, default)
Get(d, key, default) == IF key \in DOMAIN d THEN d[key] ELSE default

\* A slice that strides over the neighbour: the characters at lo and lo + 2.
SliceStride(t, lo, hi) ==
    [k \in 1..(IF lo + 2 < Len(t) THEN 2 ELSE Min(1, Len(t) - Min(lo, Len(t)))) |->
        t[lo + 2 * k - 1]]

\* t[lo:hi] for 0 <= lo <= hi: the end is clamped to the length.
Slice(t, lo, hi) == [k \in 1..(Min(hi, Len(t)) - Min(lo, Len(t))) |-> t[lo + k]]

\* A lookup that never consults the per-character table.
CharWidthMeanOnly(m, c) == m._default_character_width

\* self._char_to_width.get(c, self._default_character_width)
CharWidth(m, c) == Get(m._char_to_width, c, m._default_character_width)

\* self._pair_to_kern.get(key, 0)
Kern(m, key) == Get(m._pair_to_kern, key, 0)

\* A loop body that looks kerning up only where a full pair exists.
LoopBodyPairsOnly(m, t, i, w) ==
    (w + Get(m._char_to_width, t[i + 1], m._default_character_width))
      - (IF i + 1 < Len(t) THEN Get(m._pair_to_kern, <<t[i + 1], t[i + 2]>>, 0) ELSE 0)

\* One pass of the loop body at 0-based index i: the new accumulator.
LoopBody(m, t, i, w) ==
    (w + CharWidth(m, t[i + 1])) - Kern(m, Slice(t, i, i + 2))

RECURSIVE Loop(_, _, _, _)
Loop(m, t, i, w) ==
    IF i >= Len(t) THEN w ELSE Loop(m, t, i + 1, LoopBody(m, t, i, w))

text_width(m, t) == Loop(m, t, 0, 0)

----------------------------------------------------------------------------
(* from_json *)

MeanField == "mean-character-length"
CharField == "character-lengths"
KernField == "kerning-pairs"
Fields == {MeanField, CharField, KernField}

\* A JSON stream: text that does not parse ("invalid"), or the value it
\* parses to, an object with its members or a value of another type.
Object(members) == [kind |-> "object", members |-> members]
Other(kind) == [kind |-> kind, members |-> <<>>]

Raise(exc) == [raised |-> TRUE, exc |-> exc]
Return(v) == [raised |-> FALSE, value |-> v]

\* json.load(f)
JsonLoad(f) ==
    IF f.kind = "invalid" THEN Raise("JSONDecodeError") ELSE Return(f)

\* o.get(name): a missing member reads as 0 instead of raising.
SubscriptGet(o, name) ==
    IF o.kind # "object" THEN [raised |-> TRUE, exc |-> "AttributeError"]
    ELSE [raised |-> FALSE,
          value |-> IF name \in DOMAIN o.members THEN o.members[name] ELSE 0]

\* o[name], for the value o that json.load returned
Subscript(o, name) ==
    IF o.kind # "object" THEN Raise("TypeError")
    ELSE IF name \notin DOMAIN o.members THEN Raise("KeyError")
    ELSE Return(o.members[name])

from_json(f) ==
    LET o == JsonLoad(f) IN
    IF o.raised THEN o
    ELSE LET mean == Subscript(o.value, MeanField) IN
    IF mean.raised THEN mean
    ELSE LET lengths == Subscript(o.value, CharField) IN
    IF lengths.raised THEN lengths
    ELSE LET pairs == Subscript(o.value, KernField) IN
    IF pairs.raised THEN pairs
    ELSE Return(PrecalculatedTextMeasurer(mean.value, lengths.value, pairs.value))

\* The member values the enumerated streams carry: two sets of metrics.
MetricsA ==
    [m \in Fields \cup {"comment"} |->
        CASE m = MeanField -> 10
          [] m = CharField -> [c \in {"a", "b"} |-> GlyphWidth(c)]
          [] m = KernField -> [k \in {<<"a", "b">>} |-> KernAmount(k)]
          [] OTHER -> 0]

MetricsB ==
    [m \in Fields \cup {"comment"} |->
        CASE m = MeanField -> 7
          [] m = CharField -> [c \in {"c"} |-> GlyphWidth(c)]
          [] m = KernField -> [k \in {<<"c">>, <<"b", "c">>} |-> KernAmount(k)]
          [] OTHER -> 0]

Restrict(f, D) == [m \in D |-> f[m]]

JsonStreams ==
    {Other(k) : k \in {"invalid", "array", "string", "number", "null"}}
      \cup {Object(Restrict(v, D)) :
                v \in {MetricsA, MetricsB}, D \in SUBSET (Fields \cup {"comment"})}

----------------------------------------------------------------------------
(* The bundled resources *)

\* A resource of the package: whether it exists, whether its bytes fail to
\* decompress, and the JSON stream it holds (decompressed, for the .xz one).
File(exists, corrupt, doc) == [exists |-> exists, corrupt |-> corrupt, doc |-> doc]

AbsentFile == File(FALSE, FALSE, Other("invalid"))

BundledDocs ==
    {Object(Restrict(MetricsA, Fields)),
     Object(MetricsB),
     Object(Restrict(MetricsA, Fields \ {MeanField})),
     Other("invalid")}

XzFiles ==
    {AbsentFile, File(TRUE, TRUE, Other("invalid"))}
      \cup {File(TRUE, FALSE, d) : d \in BundledDocs}

JsonFiles == {AbsentFile} \cup {File(TRUE, FALSE, d) : d \in BundledDocs}

\* open(path) / lzma.open(path, "rt"), then from_json on the stream
OpenAndParse(file) ==
    IF ~file.exists THEN Raise("FileNotFoundError")
    ELSE IF file.corrupt THEN Raise("LZMAError")
    ELSE from_json(file.doc)

----------------------------------------------------------------------------
(* How a call ended *)

NoOutcome == [kind |-> "none"]
Raised(exc) == [kind |-> "raise", exc |-> exc]
GotTable(id) == [kind |-> "table", id |-> id]
GotWidth(m, t, w) == [kind |-> "width", self |-> m, text |-> t, width |-> w]

NoCall == [op |-> "none"]

\* The texts threads measure on the shared default table.
SharedTexts == {<<>>, <<"a">>, <<"a", "b">>, <<"c", "b", "c">>}

----------------------------------------------------------------------------
(* default() *)

\* if cls._default_cache is not None: ... (line 74)
DefaultEnter(t) ==
    /\ pc[t] = "idle"
    /\ ops < MaxOps
    /\ ops' = ops + 1
    /\ startedAfter' = [startedAfter EXCEPT ![t] = returned # {}]
    /\ pc' = [pc EXCEPT ![t] =
                IF _default_cache # None THEN "return" ELSE "resolve"]
    /\ UNCHANGED <<xz, json, _default_cache, objs, self, text, index, width,
                   outcome, returned, cacheWrites, opened, call>>

\* The plain resource tried first.
ResolvePlainFirst(x, j) ==
    IF j.exists THEN "load_json"
    ELSE IF x.exists THEN "load_xz"
    ELSE "raise"

\* if resource_xz_path.exists(): ... elif resource_json_path.exists(): ... else:
Resolve(x, j) ==
    IF x.exists THEN "load_xz"
    ELSE IF j.exists THEN "load_json"
    ELSE "raise"

\* With neither resource, an empty table is cached and returned.
DefaultResolveEmptyFallback(t) ==
    /\ pc[t] = "resolve"
    /\ LET branch == Resolve(xz, json) IN
       IF branch = "raise"
       THEN /\ objs' = Append(objs, PrecalculatedTextMeasurer(0, <<>>, <<>>))
            /\ _default_cache' = Len(objs) + 1
            /\ cacheWrites' = cacheWrites + 1
            /\ pc' = [pc EXCEPT ![t] = "return"]
       ELSE /\ pc' = [pc EXCEPT ![t] = branch]
            /\ UNCHANGED <<_default_cache, objs, cacheWrites>>
    /\ UNCHANGED <<xz, json, self, text, index, width, outcome,
                   startedAfter, ops, returned, opened, call>>

DefaultResolve(t) ==
    /\ pc[t] = "resolve"
    /\ LET branch == Resolve(xz, json) IN
       IF branch = "raise"
       THEN /\ pc' = [pc EXCEPT ![t] = "idle"]
            /\ outcome' = [outcome EXCEPT ![t] = Raised("ValueError")]
       ELSE /\ pc' = [pc EXCEPT ![t] = branch]
            /\ UNCHANGED outcome
    /\ UNCHANGED <<xz, json, _default_cache, objs, self, text, index, width,
                   startedAfter, ops, returned, cacheWrites, opened, call>>

\* The table is returned without being stored in the cache.
LoadFromUncached(t, name, file) ==
    /\ opened' = opened \cup {name}
    /\ LET r == OpenAndParse(file) IN
       IF r.raised
       THEN /\ pc' = [pc EXCEPT ![t] = "idle"]
            /\ outcome' = [outcome EXCEPT ![t] = Raised(r.exc)]
            /\ UNCHANGED <<objs, self, returned>>
       ELSE /\ objs' = Append(objs, r.value)
            /\ pc' = [pc EXCEPT ![t] = "idle"]
            /\ outcome' = [outcome EXCEPT ![t] = GotTable(Len(objs) + 1)]
            /\ self' = [self EXCEPT ![t] = Len(objs) + 1]
            /\ returned' = returned \cup {Len(objs) + 1}
    /\ UNCHANGED <<xz, json, _default_cache, cacheWrites, text, index, width,
                   startedAfter, ops, call>>

\* The cache is set to an empty table before the parse, and stays so when
\* the parse raises.
LoadFromPlaceholder(t, name, file) ==
    /\ opened' = opened \cup {name}
    /\ LET r == OpenAndParse(file) IN
       IF r.raised
       THEN /\ objs' = Append(objs, PrecalculatedTextMeasurer(0, <<>>, <<>>))
            /\ _default_cache' = Len(objs) + 1
            /\ cacheWrites' = cacheWrites + 1
            /\ pc' = [pc EXCEPT ![t] = "idle"]
            /\ outcome' = [outcome EXCEPT ![t] = Raised(r.exc)]
       ELSE /\ objs' = Append(objs, r.value)
            /\ _default_cache' = Len(objs) + 1
            /\ cacheWrites' = cacheWrites + 1
            /\ pc' = [pc EXCEPT ![t] = "return"]
            /\ UNCHANGED outcome
    /\ UNCHANGED <<xz, json, self, text, index, width, startedAfter, ops,
                   returned, call>>

\* with ... as f: cls._default_cache = PrecalculatedTextMeasurer.from_json(f)
LoadFrom(t, name, file) ==
    /\ opened' = opened \cup {name}
    /\ LET r == OpenAndParse(file) IN
       IF r.raised
       THEN /\ pc' = [pc EXCEPT ![t] = "idle"]
            /\ outcome' = [outcome EXCEPT ![t] = Raised(r.exc)]
            /\ UNCHANGED <<_default_cache, objs, cacheWrites>>
       ELSE /\ objs' = Append(objs, r.value)
            /\ _default_cache' = Len(objs) + 1
            /\ cacheWrites' = cacheWrites + 1
            /\ pc' = [pc EXCEPT ![t] = "return"]
            /\ UNCHANGED outcome
    /\ UNCHANGED <<xz, json, self, text, index, width, startedAfter, ops,
                   returned, call>>

DefaultLoadXz(t) ==
    /\ pc[t] = "load_xz"
    /\ LoadFrom(t, "default-widths.json.xz", xz)

DefaultLoadJson(t) ==
    /\ pc[t] = "load_json"
    /\ LoadFrom(t, "default-widths.json", json)

\* return cls._default_cache (lines 75, 89, 94)
DefaultReturn(t) ==
    /\ pc[t] = "return"
    /\ pc' = [pc EXCEPT ![t] = "idle"]
    /\ outcome' = [outcome EXCEPT ![t] = GotTable(_default_cache)]
    /\ self' = [self EXCEPT ![t] = _default_cache]
    /\ returned' = returned \cup {_default_cache}
    /\ UNCHANGED <<xz, json, _default_cache, objs, text, index, width,
                   startedAfter, ops, cacheWrites, opened, call>>

----------------------------------------------------------------------------
(* text_width on the table a thread got from default() *)

\* width = 0 (line 53)
TextWidthEnter(t, txt) ==
    /\ pc[t] = "idle"
    /\ self[t] # None
    /\ ops < MaxOps
    /\ ops' = ops + 1
    /\ pc' = [pc EXCEPT ![t] = "loop"]
    /\ text' = [text EXCEPT ![t] = txt]
    /\ index' = [index EXCEPT ![t] = 0]
    /\ width' = [width EXCEPT ![t] = 0]
    /\ UNCHANGED <<xz, json, _default_cache, objs, self, outcome, startedAfter,
                   returned, cacheWrites, opened, call>>

\* The character lookup done with setdefault: a missing character is
\* stored in the table with the default width.
TextWidthIterSetdefault(t) ==
    /\ pc[t] = "loop"
    /\ index[t] < Len(text[t])
    /\ LET m == objs[self[t]]
           c == text[t][index[t] + 1]
           cw == IF c \in DOMAIN m._char_to_width THEN m._char_to_width
                 ELSE [x \in DOMAIN m._char_to_width \cup {c} |->
                          IF x = c THEN m._default_character_width
                          ELSE m._char_to_width[x]]
       IN /\ objs' = [objs EXCEPT ![self[t]]._char_to_width = cw]
          /\ width' = [width EXCEPT ![t] =
                          (width[t] + cw[c])
                            - Kern(m, Slice(text[t], index[t], index[t] + 2))]
    /\ index' = [index EXCEPT ![t] = index[t] + 1]
    /\ UNCHANGED <<xz, json, _default_cache, pc, self, text, outcome,
                   startedAfter, ops, returned, cacheWrites, opened, call>>

\* one pass of the loop (lines 54-56)
TextWidthIter(t) ==
    /\ pc[t] = "loop"
    /\ index[t] < Len(text[t])
    /\ width' = [width EXCEPT ![t] =
                    LoopBody(objs[self[t]], text[t], index[t], width[t])]
    /\ index' = [index EXCEPT ![t] = index[t] + 1]
    /\ UNCHANGED <<xz, json, _default_cache, objs, pc, self, text, outcome,
                   startedAfter, ops, returned, cacheWrites, opened, call>>

\* return width (line 58)
TextWidthReturn(t) ==
    /\ pc[t] = "loop"
    /\ index[t] = Len(text[t])
    /\ pc' = [pc EXCEPT ![t] = "idle"]
    /\ outcome' = [outcome EXCEPT ![t] = GotWidth(self[t], text[t], width[t])]
    /\ text' = [text EXCEPT ![t] = <<>>]
    /\ index' = [index EXCEPT ![t] = 0]
    /\ width' = [width EXCEPT ![t] = 0]
    /\ UNCHANGED <<xz, json, _default_cache, objs, self, startedAfter, ops,
                   returned, cacheWrites, opened, call>>

----------------------------------------------------------------------------
(* The process: threads calling default() and text_width *)

Init ==
    /\ xz \in XzFiles
    /\ json \in JsonFiles
    /\ _default_cache = None
    /\ objs = <<>>
    /\ pc = [t \in Threads |-> "idle"]
    /\ self = [t \in Threads |-> None]
    /\ text = [t \in Threads |-> <<>>]
    /\ index = [t \in Threads |-> 0]
    /\ width = [t \in Threads |-> 0]
    /\ outcome = [t \in Threads |-> NoOutcome]
    /\ startedAfter = [t \in Threads |-> FALSE]
    /\ ops = 0
    /\ returned = {}
    /\ cacheWrites = 0
    /\ opened = {}
    /\ call = NoCall

Next ==
    \E t \in Threads :
        \/ DefaultEnter(t)
        \/ DefaultResolve(t)
        \/ DefaultLoadXz(t)
        \/ DefaultLoadJson(t)
        \/ DefaultReturn(t)
        \/ \E txt \in SharedTexts : TextWidthEnter(t, txt)
        \/ TextWidthIter(t)
        \/ TextWidthReturn(t)

Spec == Init /\ [][Next]_vars

----------------------------------------------------------------------------
(* Direct calls: text_width on a table built by the initializer, from_json   *)
(* on a stream                                                              *)

CallTextWidth(t) ==
    /\ call = NoCall
    /\ call' = [op |-> "text_width", text |-> t, result |-> text_width(objs[1], t)]
    /\ UNCHANGED <<xz, json, _default_cache, objs, pc, self, text, index, width,
                   outcome, startedAfter, ops, returned, cacheWrites, opened>>

CallFromJson(f) ==
    /\ call = NoCall
    /\ call' = [op |-> "from_json", stream |-> f, result |-> from_json(f)]
    /\ UNCHANGED <<xz, json, _default_cache, objs, pc, self, text, index, width,
                   outcome, startedAfter, ops, returned, cacheWrites, opened>>

InitCalls ==
    /\ xz = AbsentFile
    /\ json = AbsentFile
    /\ _default_cache = None
    /\ objs \in {<<m>> : m \in Tables}
    /\ pc = [t \in Threads |-> "idle"]
    /\ self = [t \in Threads |-> None]
    /\ text = [t \in Threads |-> <<>>]
    /\ index = [t \in Threads |-> 0]
    /\ width = [t \in Threads |-> 0]
    /\ outcome = [t \in Threads |-> NoOutcome]
    /\ startedAfter = [t \in Threads |-> FALSE]
    /\ ops = 0
    /\ returned = {}
    /\ cacheWrites = 0
    /\ opened = {}
    /\ call = NoCall

NextCalls ==
    \/ \E t \in Texts : CallTextWidth(t)
    \/ \E f \in JsonStreams : CallFromJson(f)

SpecCalls == InitCalls /\ [][NextCalls]_vars

----------------------------------------------------------------------------
(* Properties of text_width, checked on the direct calls (SpecCalls)        *)

RECURSIVE SumOver(_, _)
\* The sum of the sequence of numbers s.
SumOver(s, n) == IF n = 0 THEN 0 ELSE SumOver(s, n - 1) + s[n]

\* d.get(k, v), written out for the statements below
Lookup(d, k, v) == IF k \in DOMAIN d THEN d[k] ELSE v

\* The key looked up at 1-based position i of t: the pair starting there, or
\* the single last character.
KeyAt(t, i) == IF i < Len(t) THEN <<t[i], t[i + 1]>> ELSE <<t[i]>>

WidthOf(m, c) == Lookup(m._char_to_width, c, m._default_character_width)
KernOf(m, k) == Lookup(m._pair_to_kern, k, 0)

Measured == call.op = "text_width"

\* C1: text_width(text) is the sum over every index of the character's width
\* (default width when absent) minus the sum over every index of the kerning
\* stored under text[i:i+2] (0 when absent), the key at the last index being
\* the one-character string; the empty text measures 0.
C1_SumOfWidthsMinusKerns ==
    Measured =>
        LET t == call.text
            m == objs[1]
            n == Len(t)
        IN /\ call.result =
                SumOver([i \in 1..n |-> WidthOf(m, t[i])], n)
                  - SumOver([i \in 1..n |-> KernOf(m, KeyAt(t, i))], n)
           /\ (n = 0 => call.result = 0)

\* A three-character text whose first pair and whose last character are both
\* keys of pair_to_kern has been measured.
C1_Witness ==
    /\ Measured
    /\ Len(call.text) = 3
    /\ <<call.text[1], call.text[2]>> \in DOMAIN objs[1]._pair_to_kern
    /\ <<call.text[3]>> \in DOMAIN objs[1]._pair_to_kern
    /\ call.text[2] \notin DOMAIN objs[1]._char_to_width

\* C2 as stated: for any table and single character c, text_width(c) is
\* char_to_width.get(c, default width), nothing subtracted.
C2_SingleCharacterNoKerning ==
    (Measured /\ Len(call.text) = 1) =>
        call.result = WidthOf(objs[1], call.text[1])

\* C2 amended: text_width(c) is char_to_width.get(c, default width) minus
\* pair_to_kern.get(c, 0); it is the bare width exactly when pair_to_kern
\* holds no entry under the one-character key c.
C2_SingleCharacterLessOwnKey ==
    (Measured /\ Len(call.text) = 1) =>
        LET m == objs[1]
            c == call.text[1]
        IN /\ call.result = WidthOf(m, c) - KernOf(m, <<c>>)
           /\ (<<c>> \notin DOMAIN m._pair_to_kern => call.result = WidthOf(m, c))

\* A single character that is itself a key of pair_to_kern has been measured.
C2_Witness ==
    /\ Measured
    /\ Len(call.text) = 1
    /\ <<call.text[1]>> \in DOMAIN objs[1]._pair_to_kern
    /\ call.result # WidthOf(objs[1], call.text[1])

\* C3 as stated: text_width("xyz") is width(x) + width(y) + width(z)
\* - kern("xy") - kern("yz").
C3_ThreeCharactersTwoPairs ==
    (Measured /\ Len(call.text) = 3) =>
        LET m == objs[1]
            t == call.text
        IN call.result =
             WidthOf(m, t[1]) + WidthOf(m, t[2]) + WidthOf(m, t[3])
               - KernOf(m, <<t[1], t[2]>>) - KernOf(m, <<t[2], t[3]>>)

\* C3 amended: text_width("xyz") is width(x) + width(y) + width(z)
\* - kern("xy") - kern("yz") - kern("z"), the last being the entry under the
\* one-character key z (0 when absent); the entry under "xz" is subtracted
\* only where "xz" is one of those three keys.
C3_ThreeCharactersAdjacentKeys ==
    (Measured /\ Len(call.text) = 3) =>
        LET m == objs[1]
            t == call.text
        IN /\ call.result =
                WidthOf(m, t[1]) + WidthOf(m, t[2]) + WidthOf(m, t[3])
                  - KernOf(m, <<t[1], t[2]>>) - KernOf(m, <<t[2], t[3]>>)
                  - KernOf(m, <<t[3]>>)
           /\ (<<t[3]>> \notin DOMAIN m._pair_to_kern =>
                 call.result =
                   WidthOf(m, t[1]) + WidthOf(m, t[2]) + WidthOf(m, t[3])
                     - KernOf(m, <<t[1], t[2]>>) - KernOf(m, <<t[2], t[3]>>))

\* A text "xyz" of three different characters has been measured on a table
\* that holds an entry under "xz" and one under "xy".
C3_Witness ==
    /\ Measured
    /\ Len(call.text) = 3
    /\ Cardinality({call.text[1], call.text[2], call.text[3]}) = 3
    /\ DOMAIN objs[1]._pair_to_kern =
         {<<call.text[1], call.text[3]>>, <<call.text[1], call.text[2]>>}

----------------------------------------------------------------------------
(* from_json, checked on the direct calls (SpecCalls)                       *)

\* C8: from_json on a stream that does not parse, or whose value lacks any of
\* 'mean-character-length', 'character-lengths', 'kerning-pairs', raises and
\* constructs no table; it returns a table only when all three are present,
\* and the table's three parts are then the three member values.
C8_FromJsonAllFieldsOrError ==
    call.op = "from_json" =>
        LET f == call.stream
            r == call.result
            complete == f.kind = "object" /\ Fields \subseteq DOMAIN f.members
        IN /\ (~complete => r.raised /\ DOMAIN r = {"raised", "exc"})
           /\ (complete => ~r.raised)
           /\ (~r.raised =>
                 /\ complete
                 /\ r.value._default_character_width = f.members[MeanField]
                 /\ r.value._char_to_width = f.members[CharField]
                 /\ r.value._pair_to_kern = f.members[KernField])

\* from_json has raised on an object that lacks only the mean width.
C8_Witness ==
    /\ call.op = "from_json"
    /\ call.stream.kind = "object"
    /\ DOMAIN call.stream.members = {CharField, KernField}
    /\ call.result.raised

----------------------------------------------------------------------------
(* default() and text_width between threads (Spec)                          *)

\* C4 as stated: over any calls of default(), sequential or interleaved, the
\* table is built and _default_cache written at most once.
C4_BuiltAtMostOnce == cacheWrites <= 1

\* Thread t ends a default() call in this step by returning a table.
ReturnsTable(t) ==
    /\ pc[t] \in {"return", "load_xz", "load_json"}
    /\ pc'[t] = "idle"
    /\ outcome'[t].kind = "table"

\* C5: any two default() calls that return, return equivalent tables (same
\* default width, character widths and kerning pairs), and a call that starts
\* after another has returned gets the table held in _default_cache.
C5_EquivalentTablesAndCached ==
    /\ [](\A i, j \in returned :
            /\ i \in 1..Len(objs)
            /\ objs[i] = objs[j]
            /\ \A x \in SharedTexts : text_width(objs[i], x) = text_width(objs[j], x))
    /\ [][\A t \in Threads :
            (ReturnsTable(t) /\ startedAfter[t]) =>
                /\ _default_cache' # None
                /\ outcome'[t].id = _default_cache']_vars

\* Two callers have each built and returned a table object of their own, and
\* a call begun after that has returned a table.
C5_Witness ==
    /\ Cardinality(returned) >= 2
    /\ \E t \in Threads :
          /\ startedAfter[t]
          /\ pc[t] = "idle"
          /\ outcome[t].kind = "table"
          /\ outcome[t].id = _default_cache

\* The resource the resolution order picks.
FirstMatch == IF xz.exists THEN xz ELSE json

\* C6: with the cache empty the compressed resource, when it exists, is the
\* one decompressed and parsed and the plain one is never read, also when
\* both exist; the plain one is parsed only when the compressed one does not
\* exist.
C6_CompressedFirst ==
    /\ xz.exists => "default-widths.json" \notin opened
    /\ "default-widths.json" \in opened => (~xz.exists /\ json.exists)
    /\ \A t \in Threads :
          /\ pc[t] = "load_json" => ~xz.exists
          /\ (xz.exists /\ pc[t] = "return") => "default-widths.json.xz" \in opened
    /\ _default_cache # None =>
          LET r == IF FirstMatch.corrupt THEN [raised |-> TRUE]
                   ELSE from_json(FirstMatch.doc)
          IN ~r.raised /\ objs[_default_cache] = r.value

\* Both resources exist with different metrics, and the table is cached.
C6_Witness ==
    /\ xz.exists
    /\ json.exists
    /\ ~from_json(json.doc).raised
    /\ _default_cache # None
    /\ objs[_default_cache] # from_json(json.doc).value
    /\ opened = {"default-widths.json.xz"}

\* C7: with the cache empty and neither resource existing, default() raises
\* the 'could not load' ValueError and returns no table; no table, empty or
\* otherwise, is constructed or cached.
C7_NeitherResourceRaises ==
    (~xz.exists /\ ~json.exists) =>
        /\ _default_cache = None
        /\ objs = <<>>
        /\ opened = {}
        /\ returned = {}
        /\ \A t \in Threads :
              /\ outcome[t] \in {NoOutcome, Raised("ValueError")}
              /\ self[t] = None
              /\ pc[t] \in {"idle", "resolve"}

\* A default() call has raised the ValueError.
C7_Witness ==
    /\ ~xz.exists
    /\ ~json.exists
    /\ \E t \in Threads : pc[t] = "idle" /\ outcome[t] = Raised("ValueError")

\* Thread t takes a step of text_width: it enters, passes the loop or returns.
TextWidthStep(t) ==
    /\ pc[t] = "loop" \/ pc'[t] = "loop"
    /\ <<pc[t], index[t]>> # <<pc'[t], index'[t]>>

\* C9: a call of text_width leaves the table's default width, char_to_width
\* and pair_to_kern and _default_cache unchanged, and calls interleaved on a
\* shared table each return what the call returns when run alone.
C9_TextWidthReadsOnly ==
    /\ [][(\E t \in Threads : TextWidthStep(t)) =>
            (objs' = objs /\ _default_cache' = _default_cache)]_vars
    /\ [](\A t \in Threads :
            outcome[t].kind = "width" =>
                LET m == objs[outcome[t].self]
                    x == outcome[t].text
                    n == Len(x)
                IN outcome[t].width =
                     SumOver([i \in 1..n |-> WidthOf(m, x[i])], n)
                       - SumOver([i \in 1..n |-> KernOf(m, KeyAt(x, i))], n))

\* Two threads are both part-way through text_width on the same table, on a
\* character the table has no width for.
C9_Witness ==
    \E t, u \in Threads :
        /\ t # u
        /\ pc[t] = "loop" /\ pc[u] = "loop"
        /\ self[t] = self[u]
        /\ index[t] > 0 /\ index[u] > 0
        /\ index[u] < Len(text[u])
        /\ text[t][1] \notin DOMAIN objs[self[t]]._char_to_width

\* Thread t ends a default() call in this step by raising.
FailsDefault(t) ==
    /\ pc[t] \in {"resolve", "load_xz", "load_json"}
    /\ pc'[t] = "idle"
    /\ outcome'[t].kind = "raise"

\* C10: _default_cache is None or a table a successful from_json produced; a
\* default() call that fails leaves it unchanged, so a later call resolves
\* again; once it holds a table it is never None again.
C10_CacheNoneOrParsedTable ==
    /\ [](_default_cache # None =>
            /\ _default_cache \in 1..Len(objs)
            /\ \E file \in {xz, json} :
                  /\ file.exists /\ ~file.corrupt
                  /\ ~from_json(file.doc).raised
                  /\ objs[_default_cache] = from_json(file.doc).value)
    /\ [][/\ _default_cache # None => _default_cache' # None
          /\ \A t \in Threads : FailsDefault(t) => _default_cache' = _default_cache
          /\ \A t \in Threads :
                (pc[t] = "idle" /\ pc'[t] # "idle" /\ _default_cache = None
                   /\ outcome[t].kind = "raise") => pc'[t] = "resolve"]_vars

\* A thread whose default() call raised on a resource that exists is
\* resolving again, the cache still None.
C10_Witness ==
    \E t \in Threads :
        /\ outcome[t].kind = "raise"
        /\ outcome[t].exc # "ValueError"
        /\ pc[t] = "resolve"
        /\ _default_cache = None

====
